---- MODULE Spec2Model ----
(***************************************************************************)
(* A model of radial_interp (src/radial_interp.py): one call of the        *)
(* function, from its first precondition assertion to its return or to the *)
(* exception it raises.                                                    *)
(*                                                                         *)
(* The two library collaborators are represented by terms of their         *)
(* arguments: geopy's destination() by the pair of terms DestLat/DestLon   *)
(* of (start lat, start lon, km, bearing), scipy's interpn() by the term   *)
(* InterpAt of the (lon, lat) pair it is asked about.  Python sequences    *)
(* are TLA+ sequences (1-based); numpy array indices stay 0-based.         *)
(***************************************************************************)
EXTENDS Integers, Sequences, FiniteSets, TLC

\* ---------------------------------------------------------------- bounds
MaxRings == 2
MaxBearings == 2
MaxCenters == 2

\* Values input vectors are drawn from.
NdimVals == 1..4
FirstRadiusVals == {-1, 0, 1}
CenterVals == {0, 1}
AllBearings == <<0, 90, 180, 270>>
GarbageVals == {0, 1}

\* All sequences over S of length lo..hi.
SeqsOf(S, lo, hi) == UNION {[1..n -> S] : n \in lo..hi}

\* radius_steps as callers build it: evenly spaced rings from a first radius.
RadiusInputs == {[k \in 1..n |-> r0 + (k - 1)] : r0 \in FirstRadiusVals, n \in 1..MaxRings}
\* degree_steps as callers build it: evenly spaced bearings.
DegreeInputs == {[k \in 1..n |-> AllBearings[((k - 1) % 4) + 1]] : n \in 1..MaxBearings}
CenterInputs == SeqsOf(CenterVals, 0, MaxCenters)

\* ----------------------------------------------------------------- state
VARIABLES
  a_ndim,              \* a.ndim
  radius_steps,        \* sequence of km
  degree_steps,        \* sequence of bearings
  center_lat,          \* sequence of latitudes (one element when scalar)
  center_lon,          \* sequence of longitudes (one element when scalar)
  lat_kind,            \* how center_lat was passed: "scalar", "list" or "array"
  lon_kind,            \* how center_lon was passed: "scalar", "list" or "array"
  return_coordinates,  \* the keyword argument
  pc,                  \* position in the function body
  interp_lat,          \* local list / array
  interp_lon,          \* local list / array
  interp_vals,         \* local: result of the last interpn call
  array_out,           \* local: output array of the multiple-center branch
  lon_i,               \* position of the outer loop in center_lon (0 = not started)
  lat_j,               \* position of the inner loop in center_lat (0 = not started)
  result,              \* what the call returned
  error,               \* exception type raised, "none" if none
  raised_at,           \* source line that raised, 0 if none
  branches_run,        \* which arms of the if at line 54 were entered
  dest_calls,          \* number of destination() calls made so far
  interp_calls,        \* number of interpn() calls made so far
  interp_args,         \* (lon, lat) coordinate lists handed to the last interpn call
  sampled,             \* loop positions <<i, j>> whose center was interpolated
  writes               \* stores into array_out: loop position and cell written

vars == <<a_ndim, radius_steps, degree_steps, center_lat, center_lon, lat_kind,
          lon_kind, return_coordinates, pc, interp_lat, interp_lon, interp_vals,
          array_out, lon_i, lat_j, result, error, raised_at, branches_run,
          dest_calls, interp_calls, interp_args, sampled, writes>>

inputs == <<a_ndim, radius_steps, degree_steps, center_lat, center_lon, lat_kind,
            lon_kind, return_coordinates>>

locals == <<interp_lat, interp_lon, interp_vals, array_out, lon_i, lat_j>>

history == <<branches_run, dest_calls, interp_calls, interp_args, sampled, writes>>

\* ------------------------------------------------------- library terms
\* dest[0] of distance(kilometers=km).destination(Point(lat, lon), bearing=deg)
DestLat(lat, lon, km, deg) == <<"dest_lat", lat, lon, km, deg>>
\* dest[1] of the same call
DestLon(lat, lon, km, deg) == <<"dest_lon", lat, lon, km, deg>>
\* a coordinate taken as given from center_lat / center_lon
Given(c) == <<"given", c>>
\* the value interpn returns for the point (lon, lat) of the grid (a_lons, a_lats)
InterpAt(lon, lat) == <<"val", lon, lat>>
\* an element of freshly allocated np.empty memory
Uninit(g) == <<"uninit", g>>

\* ------------------------------------------------------------- helpers
NoResult == [kind |-> "pending", vals |-> <<>>, lat |-> <<>>, lon |-> <<>>]
NoneResult == [kind |-> "None", vals |-> <<>>, lat |-> <<>>, lon |-> <<>>]
ArrayResult == [kind |-> "array", vals |-> <<>>, lat |-> <<>>, lon |-> <<>>]

\* np.size(x): 1 for a scalar, the number of elements for a vector
NpSize(x, kind) == IF kind = "scalar" THEN 1 ELSE Len(x)

\* The ways a center argument can be passed: a number, a Python list or a
\* numpy array.
ArgKinds == {"scalar", "list", "array"}

\* lines 61, 70: geopy.Point(center_lat, center_lon) is handed the arguments as
\* they are and converts each with float(): a number converts, a list is a
\* TypeError, and a one-element numpy array converts or is a TypeError
\* depending on the numpy release (converts says which)
PointAccepts(kind, converts) == kind = "scalar" \/ (kind = "array" /\ converts)

\* np.hstack([head, tail]) of two 1-D sequences of coordinates
Hstack(head, tail) == [k \in 1..(Len(head) + Len(tail)) |->
                         IF k <= Len(head) THEN Given(head[k]) ELSE tail[k - Len(head)]]


\* --------------------------------------------------- the code's conditions
NdimOK_AtMost3(ndim) == ndim <= 3
\* line 51: assert 2 <= a.ndim <= 3
NdimOK(ndim) == 2 <= ndim /\ ndim <= 3

RadiusOK_Strict(rs) == rs[1] > 0
\* line 52: assert radius_steps[0] >= 0
RadiusOK(rs) == rs[1] >= 0

IsSingleCenter_Or(clat, latKind, clon, lonKind) ==
  NpSize(clat, latKind) = 1 \/ NpSize(clon, lonKind) = 1
\* line 54: np.size(center_lat) == 1 and np.size(center_lon) == 1
IsSingleCenter(clat, latKind, clon, lonKind) ==
  NpSize(clat, latKind) = 1 /\ NpSize(clon, lonKind) = 1

MultiNdimOK_Any(ndim) == TRUE
\* line 92: assert a.ndim == 2
MultiNdimOK(ndim) == ndim = 2

\* line 94: assert return_coordinates == False
MultiCoordsOK(rc) == rc = FALSE

\* ------------------------------------------------------ the radial grid
\* The nested loops "for km in radius_steps: for deg in degree_steps:" append
\* one destination per pass; pass k (1-based) has ring RingOf and bearing
\* BearingOf.
RingOf(k, nDeg) == ((k - 1) \div nDeg) + 1
BearingOf(k, nDeg) == ((k - 1) % nDeg) + 1

RadialLats_BearingMajor(lat, lon, rs, ds) ==
  [k \in 1..(Len(rs) * Len(ds)) |->
     DestLat(lat, lon, rs[BearingOf(k, Len(rs))], ds[RingOf(k, Len(rs))])]
\* interp_lat after the loops of lines 59-65 (and 68-74, 105-112, 115-122)
RadialLats(lat, lon, rs, ds) ==
  [k \in 1..(Len(rs) * Len(ds)) |->
     DestLat(lat, lon, rs[RingOf(k, Len(ds))], ds[BearingOf(k, Len(ds))])]

\* interp_lon after the same loops
RadialLons(lat, lon, rs, ds) ==
  [k \in 1..(Len(rs) * Len(ds)) |->
     DestLon(lat, lon, rs[RingOf(k, Len(ds))], ds[BearingOf(k, Len(ds))])]

WithOrigin_Never(rs, origin, pts) == pts
\* lines 58, 67, 76-77 (and 104, 114, 124-125): the origin is stacked in front
\* of the points only when the first radius is not 0
WithOrigin(rs, origin, pts) == IF rs[1] = 0 THEN pts ELSE Hstack(origin, pts)

\* lines 79, 127-128: si.interpn((a_lons, a_lats), a, (interp_lon, interp_lat))
\* yields one value per (lon, lat) pair, in the order of the pairs
InterpVals(lons, lats) == [k \in 1..Len(lons) |-> InterpAt(lons[k], lats[k])]

ReturnValue_ValsOnly(rc, vals, lat, lon) ==
  [kind |-> "vals", vals |-> vals, lat |-> <<>>, lon |-> <<>>]
\* lines 83-87: the triple when return_coordinates == True, else the values
ReturnValue(rc, vals, lat, lon) ==
  IF rc = TRUE
    THEN [kind |-> "triple", vals |-> vals, lat |-> lat, lon |-> lon]
    ELSE [kind |-> "vals", vals |-> vals, lat |-> <<>>, lon |-> <<>>]

\* numpy integer indexing of an axis of length n: v in -n..n-1 is accepted and
\* negative v counts from the end; anything else is an IndexError
IndexInRange(v, n) == -n <= v /\ v < n
PyIndex(v, n) == IF v < 0 THEN v + n ELSE v

\* line 96-97: np.empty([len(center_lon), len(center_lat), n]); the content of
\* the cells is whatever the allocator left there
EmptyArray(nLon, nLat, n, g) ==
  [c \in (0..(nLon - 1)) \X (0..(nLat - 1)) |-> [k \in 1..n |-> Uninit(g)]]

\* ------------------------------------------------------------------ Init
Init ==
  /\ a_ndim \in NdimVals
  /\ radius_steps \in RadiusInputs
  /\ degree_steps \in DegreeInputs
  /\ center_lat \in CenterInputs
  /\ center_lon \in CenterInputs
  /\ lat_kind \in {k \in ArgKinds : k = "scalar" => Len(center_lat) = 1}
  /\ lon_kind \in {k \in ArgKinds : k = "scalar" => Len(center_lon) = 1}
  /\ return_coordinates \in BOOLEAN
  /\ pc = "assert_ndim"
  /\ interp_lat = <<>>
  /\ interp_lon = <<>>
  /\ interp_vals = <<>>
  /\ array_out = <<>>
  /\ lon_i = 0
  /\ lat_j = 0
  /\ result = NoResult
  /\ error = "none"
  /\ raised_at = 0
  /\ branches_run = {}
  /\ dest_calls = 0
  /\ interp_calls = 0
  /\ interp_args = [lon |-> <<>>, lat |-> <<>>]
  /\ sampled = {}
  /\ writes = {}

\* raise exc at the given source line
Raise(exc, line) ==
  /\ pc' = "raised"
  /\ error' = exc
  /\ raised_at' = line

Goto(label) ==
  /\ pc' = label
  /\ UNCHANGED <<error, raised_at>>

\* --------------------------------------------------------------- actions
\* line 51
AssertNdim ==
  /\ pc = "assert_ndim"
  /\ IF NdimOK(a_ndim) THEN Goto("assert_radius")
                       ELSE Raise("AssertionError", 51)
  /\ UNCHANGED <<inputs, locals, result, history>>

\* line 52
AssertRadius ==
  /\ pc = "assert_radius"
  /\ IF RadiusOK(radius_steps) THEN Goto("branch")
                               ELSE Raise("AssertionError", 52)
  /\ UNCHANGED <<inputs, locals, result, history>>

\* lines 54 and 89
SelectBranch ==
  /\ pc = "branch"
  /\ IF IsSingleCenter(center_lat, lat_kind, center_lon, lon_kind)
       THEN /\ Goto("single_points")
            /\ branches_run' = branches_run \cup {"single"}
       ELSE /\ Goto("multi_assert_ndim")
            /\ branches_run' = branches_run \cup {"multi"}
  /\ UNCHANGED <<inputs, locals, result, dest_calls, interp_calls, interp_args,
                 sampled, writes>>

\* lines 55-77; the first pass of the loops builds geopy.Point(center_lat,
\* center_lon) from the arguments themselves, which raises TypeError (line 61
\* or 70) before any destination is computed when an argument does not convert
SinglePoints ==
  /\ pc = "single_points"
  /\ \E converts \in BOOLEAN :
       IF /\ Len(radius_steps) * Len(degree_steps) > 0
          /\ ~(PointAccepts(lat_kind, converts) /\ PointAccepts(lon_kind, converts))
         THEN /\ Raise("TypeError", IF radius_steps[1] = 0 THEN 61 ELSE 70)
              /\ UNCHANGED <<interp_lat, interp_lon, dest_calls>>
         ELSE /\ interp_lat' = WithOrigin(radius_steps, center_lat,
                                 RadialLats(center_lat[1], center_lon[1],
                                            radius_steps, degree_steps))
              /\ interp_lon' = WithOrigin(radius_steps, center_lon,
                                 RadialLons(center_lat[1], center_lon[1],
                                            radius_steps, degree_steps))
              /\ dest_calls' = dest_calls + Len(radius_steps) * Len(degree_steps)
              /\ Goto("single_interp")
  /\ UNCHANGED <<inputs, interp_vals, array_out, lon_i, lat_j, result, branches_run,
                 interp_calls, interp_args, sampled, writes>>

\* line 79; interpn raises ValueError when a sample point lies outside the grid
\* or the grid vectors do not fit the array
SingleInterp ==
  /\ pc = "single_interp"
  /\ interp_calls' = interp_calls + 1
  /\ interp_args' = [lon |-> interp_lon, lat |-> interp_lat]
  /\ \E ok \in BOOLEAN :
       IF ok THEN /\ interp_vals' = InterpVals(interp_lon, interp_lat)
                  /\ Goto("single_return")
             ELSE /\ Raise("ValueError", 79)
                  /\ UNCHANGED interp_vals
  /\ UNCHANGED <<inputs, interp_lat, interp_lon, array_out, lon_i, lat_j, result,
                 branches_run, dest_calls, sampled, writes>>

\* lines 83-87
SingleReturn ==
  /\ pc = "single_return"
  /\ result' = ReturnValue(return_coordinates, interp_vals, interp_lat, interp_lon)
  /\ Goto("done")
  /\ UNCHANGED <<inputs, locals, history>>

\* numpy broadcasting of a 1-D operand of length m to length n
CanBroadcast(m, n) == m = n \/ m = 1
Broadcast(seq, n) == IF Len(seq) = n THEN seq ELSE [k \in 1..n |-> seq[1]]
\* length two 1-D coordinate lists broadcast to (np.broadcast_arrays inside interpn)
CommonLen(m, n) == IF m = 1 THEN n ELSE m
CoordsFit(m, n) == m = n \/ m = 1 \/ n = 1

\* line 92
MultiAssertNdim ==
  /\ pc = "multi_assert_ndim"
  /\ IF MultiNdimOK(a_ndim) THEN Goto("multi_assert_coords")
                            ELSE Raise("AssertionError", 92)
  /\ UNCHANGED <<inputs, locals, result, history>>

\* line 94
MultiAssertCoords ==
  /\ pc = "multi_assert_coords"
  /\ IF MultiCoordsOK(return_coordinates) THEN Goto("multi_alloc")
                                          ELSE Raise("AssertionError", 94)
  /\ UNCHANGED <<inputs, locals, result, history>>

\* lines 96-97; len() of a scalar is a TypeError
MultiAlloc ==
  /\ pc = "multi_alloc"
  /\ IF lat_kind = "scalar" \/ lon_kind = "scalar"
       THEN /\ Raise("TypeError", 96)
            /\ UNCHANGED array_out
       ELSE /\ \E g \in GarbageVals :
                 array_out' = EmptyArray(Len(center_lon), Len(center_lat),
                                         Len(radius_steps) * Len(degree_steps), g)
            /\ Goto("for_lon")
  /\ UNCHANGED <<inputs, interp_lat, interp_lon, interp_vals, lon_i, lat_j, result,
                 history>>

\* line 99: for lon in center_lon; when the vector is used up the function
\* body ends and the call returns None
MultiForLon ==
  /\ pc = "for_lon"
  /\ IF lon_i < Len(center_lon)
       THEN /\ lon_i' = lon_i + 1
            /\ lat_j' = 0
            /\ Goto("for_lat")
            /\ UNCHANGED result
       ELSE /\ result' = NoneResult
            /\ Goto("done")
            /\ UNCHANGED <<lon_i, lat_j>>
  /\ UNCHANGED <<inputs, interp_lat, interp_lon, interp_vals, array_out, history>>

\* line 100: for lat in center_lat
MultiForLat ==
  /\ pc = "for_lat"
  /\ IF lat_j < Len(center_lat)
       THEN /\ lat_j' = lat_j + 1
            /\ Goto("multi_points")
       ELSE /\ Goto("for_lon")
            /\ UNCHANGED lat_j
  /\ UNCHANGED <<inputs, interp_lat, interp_lon, interp_vals, array_out, lon_i,
                 result, history>>

\* lines 101-125; lines 124-125 stack the whole center vectors in front
MultiPoints ==
  /\ pc = "multi_points"
  /\ interp_lat' = WithOrigin(radius_steps, center_lat,
                     RadialLats(center_lat[lat_j], center_lon[lon_i],
                                radius_steps, degree_steps))
  /\ interp_lon' = WithOrigin(radius_steps, center_lon,
                     RadialLons(center_lat[lat_j], center_lon[lon_i],
                                radius_steps, degree_steps))
  /\ dest_calls' = dest_calls + Len(radius_steps) * Len(degree_steps)
  /\ Goto("multi_interp")
  /\ UNCHANGED <<inputs, interp_vals, array_out, lon_i, lat_j, result, branches_run,
                 interp_calls, interp_args, sampled, writes>>

\* lines 127-129; interpn raises ValueError when the two coordinate lists do
\* not broadcast against each other, when a sample point lies outside the
\* grid or when the grid vectors do not fit the array
MultiInterp ==
  /\ pc = "multi_interp"
  /\ interp_calls' = interp_calls + 1
  /\ interp_args' = [lon |-> interp_lon, lat |-> interp_lat]
  /\ \E ok \in BOOLEAN :
       IF ok /\ CoordsFit(Len(interp_lon), Len(interp_lat))
         THEN /\ LET n == CommonLen(Len(interp_lon), Len(interp_lat))
                 IN interp_vals' = InterpVals(Broadcast(interp_lon, n),
                                              Broadcast(interp_lat, n))
              /\ interp_lat' = <<>>
              /\ interp_lon' = <<>>
              /\ sampled' = sampled \cup {<<lon_i - 1, lat_j - 1>>}
              /\ Goto("multi_store")
         ELSE /\ Raise("ValueError", 127)
              /\ UNCHANGED <<interp_vals, interp_lat, interp_lon, sampled>>
  /\ UNCHANGED <<inputs, array_out, lon_i, lat_j, result, branches_run, dest_calls,
                 writes>>

\* line 130: array_out[lon, lat, :] = interp_vals, where lon and lat are the
\* loop variables, i.e. elements of center_lon and center_lat
MultiStore ==
  /\ pc = "multi_store"
  /\ LET lon == center_lon[lon_i]
         lat == center_lat[lat_j]
         nLon == Len(center_lon)
         nLat == Len(center_lat)
         n == Len(radius_steps) * Len(degree_steps)
         cell == <<PyIndex(lon, nLon), PyIndex(lat, nLat)>>
     IN IF ~(IndexInRange(lon, nLon) /\ IndexInRange(lat, nLat))
          THEN /\ Raise("IndexError", 130)
               /\ UNCHANGED <<array_out, writes>>
          ELSE IF ~CanBroadcast(Len(interp_vals), n)
            THEN /\ Raise("ValueError", 130)
                 /\ UNCHANGED <<array_out, writes>>
            ELSE /\ array_out' = [array_out EXCEPT ![cell] = Broadcast(interp_vals, n)]
                 /\ writes' = writes \cup
                      {[center |-> <<lon_i - 1, lat_j - 1>>, cell |-> cell]}
                 /\ Goto("multi_return")
  /\ UNCHANGED <<inputs, interp_lat, interp_lon, interp_vals, lon_i, lat_j, result,
                 branches_run, dest_calls, interp_calls, interp_args, sampled>>

\* line 132: the return statement sits inside the inner loop
MultiReturn ==
  /\ pc = "multi_return"
  /\ result' = ArrayResult
  /\ Goto("done")
  /\ UNCHANGED <<inputs, locals, history>>

Next ==
  \/ AssertNdim
  \/ AssertRadius
  \/ SelectBranch
  \/ SinglePoints
  \/ SingleInterp
  \/ SingleReturn
  \/ MultiAssertNdim
  \/ MultiAssertCoords
  \/ MultiAlloc
  \/ MultiForLon
  \/ MultiForLat
  \/ MultiPoints
  \/ MultiInterp
  \/ MultiStore
  \/ MultiReturn

Spec == Init /\ [][Next]_vars

TypeOK ==
  /\ pc \in {"assert_ndim", "assert_radius", "branch", "single_points", "single_interp",
             "single_return", "multi_assert_ndim", "multi_assert_coords", "multi_alloc",
             "for_lon", "for_lat", "multi_points", "multi_interp", "multi_store",
             "multi_return", "done", "raised"}
  /\ error \in {"none", "AssertionError", "ValueError", "IndexError", "TypeError"}
  /\ (pc = "raised") <=> (error # "none")

\* ================================================================ claims
\* Abbreviations used by the properties below.
nRings == Len(radius_steps)
nBearings == Len(degree_steps)
InSingle == "single" \in branches_run
InMulti == "multi" \in branches_run
AllCenterPositions == (0..(Len(center_lon) - 1)) \X (0..(Len(center_lat) - 1))
\* the single-center branch has built its coordinate lists
SinglePointsBuilt ==
  /\ InSingle
  /\ \/ pc \in {"single_interp", "single_return", "done"}
     \/ pc = "raised" /\ raised_at = 79

\* C1: in the multiple-center branch the array is returned only after every
\* (lon, lat) center pair has been sampled and interpolated.
C1_EveryCenterSampled ==
  (pc = "done" /\ InMulti /\ result.kind = "array") => sampled = AllCenterPositions

\* C2: an array that is neither 2D nor 3D always ends in the assertion error of
\* line 51, whatever the other arguments, with no destination computed and no
\* interpolation performed.
C2_NdimAssertion ==
  (a_ndim \notin {2, 3} /\ pc # "assert_ndim")
    => /\ pc = "raised"
       /\ error = "AssertionError"
       /\ raised_at = 51
       /\ dest_calls = 0
       /\ interp_calls = 0

C2_Witness ==
  /\ pc = "raised"
  /\ raised_at = 51
  /\ a_ndim = 4
  /\ radius_steps[1] < 0
  /\ Len(center_lon) = 2

\* C3: with a 2D or 3D array, a negative first radius always ends in the
\* assertion error of line 52 with no destination computed and no interpolation
\* performed, and a first radius of 0 or more never raises that assertion.
C3_RadiusAssertion ==
  /\ (a_ndim \in {2, 3} /\ radius_steps[1] < 0 /\ pc \notin {"assert_ndim", "assert_radius"})
       => /\ pc = "raised"
          /\ error = "AssertionError"
          /\ raised_at = 52
          /\ dest_calls = 0
          /\ interp_calls = 0
  /\ radius_steps[1] >= 0 => raised_at # 52

C3_Witness ==
  /\ pc = "raised"
  /\ raised_at = 52
  /\ a_ndim = 3
  /\ radius_steps[1] = -1

\* C4 (as stated): an input that is 2D or 3D with a non-negative first radius
\* never raises an assertion, in either branch.
C4_OnlyTwoAssertions ==
  (a_ndim \in {2, 3} /\ radius_steps[1] >= 0) => error # "AssertionError"

\* C4 (amended): the assertions are those of lines 51, 52, 92 and 94.  With a
\* 2D or 3D array and a non-negative first radius the single-center branch
\* raises no assertion, and the multiple-center branch raises one exactly when
\* the array is 3D (line 92) or return_coordinates is True (line 94).
C4_AssertionsByBranch ==
  /\ error = "AssertionError" => raised_at \in {51, 52, 92, 94}
  /\ raised_at = 92 => (InMulti /\ a_ndim = 3)
  /\ raised_at = 94 => (InMulti /\ a_ndim = 2 /\ return_coordinates)
  /\ (a_ndim \in {2, 3} /\ radius_steps[1] >= 0 /\ InSingle) => error # "AssertionError"
  /\ (InMulti /\ pc \notin {"multi_assert_ndim", "multi_assert_coords"})
       => (error = "AssertionError" <=> (a_ndim = 3 \/ return_coordinates))

C4_Witness ==
  /\ pc = "raised"
  /\ raised_at = 94
  /\ a_ndim = 2
  /\ radius_steps[1] >= 0
  /\ return_coordinates

\* C5: the single-center branch returns (interp_vals, interp_lat, interp_lon)
\* when return_coordinates is True, the two coordinate lists being of equal
\* length, one pair per value and exactly those handed to the interpolation;
\* it returns interp_vals alone when return_coordinates is False.
C5_SingleReturnValue ==
  (InSingle /\ pc = "done")
    => IF return_coordinates
         THEN /\ result.kind = "triple"
              /\ result.vals = interp_vals
              /\ result.lat = interp_args.lat
              /\ result.lon = interp_args.lon
              /\ Len(result.lat) = Len(result.lon)
              /\ Len(result.vals) = Len(result.lat)
         ELSE /\ result.kind = "vals"
              /\ result.vals = interp_vals

C5_Witness ==
  /\ InSingle
  /\ pc = "done"
  /\ return_coordinates
  /\ result.kind = "triple"
  /\ Len(result.lat) = 1 + nRings * nBearings
  /\ nRings = MaxRings

\* C6: the single-center sample points are the full radial grid, one point per
\* (radius, bearing) pair: len(radius_steps) * len(degree_steps) points and no
\* origin when the first radius is 0, one more when it is positive, the first
\* point then being the center itself.
C6_SinglePointCount ==
  SinglePointsBuilt
    => /\ Len(interp_lon) = Len(interp_lat)
       /\ radius_steps[1] = 0
            => /\ Len(interp_lat) = nRings * nBearings
               /\ \A k \in 1..Len(interp_lat) :
                    interp_lat[k][1] # "given" /\ interp_lon[k][1] # "given"
       /\ radius_steps[1] > 0
            => /\ Len(interp_lat) = 1 + nRings * nBearings
               /\ interp_lat[1] = Given(center_lat[1])
               /\ interp_lon[1] = Given(center_lon[1])
       /\ \A i \in 1..nRings, j \in 1..nBearings :
            \E k \in 1..Len(interp_lat) :
              /\ interp_lat[k] = DestLat(center_lat[1], center_lon[1],
                                         radius_steps[i], degree_steps[j])
              /\ interp_lon[k] = DestLon(center_lat[1], center_lon[1],
                                         radius_steps[i], degree_steps[j])

C6_Witness ==
  /\ SinglePointsBuilt
  /\ radius_steps[1] > 0
  /\ nRings = MaxRings
  /\ nBearings = MaxBearings
  /\ Len(interp_lat) = 1 + MaxRings * MaxBearings

\* C7: the single-center branch runs exactly when center_lat and center_lon
\* both have size 1, the multiple-center branch in every other case; one branch
\* runs per call, and a 3D array is interpolated only in the single-center
\* branch.
C7_BranchSelection ==
  LET szLat == IF lat_kind = "scalar" THEN 1 ELSE Len(center_lat)
      szLon == IF lon_kind = "scalar" THEN 1 ELSE Len(center_lon)
  IN /\ Cardinality(branches_run) <= 1
     /\ (pc \notin {"assert_ndim", "assert_radius", "branch"} /\ raised_at \notin {51, 52})
          => /\ Cardinality(branches_run) = 1
             /\ InSingle <=> (szLat = 1 /\ szLon = 1)
             /\ InMulti <=> ~(szLat = 1 /\ szLon = 1)
     /\ (a_ndim = 3 /\ interp_calls > 0) => branches_run = {"single"}

C7_Witness ==
  /\ branches_run = {"multi"}
  /\ Len(center_lat) = 1
  /\ Len(center_lon) = 2
  /\ pc = "done"

\* C8: in the multiple-center branch the number of sample points of every
\* center processed, and so the number of interpolated values, equals the third
\* dimension of array_out, len(radius_steps) * len(degree_steps), whether the
\* first radius is 0 or positive.
C8_MultiPointCountFits ==
  /\ (InMulti /\ pc = "multi_interp")
       => /\ Len(interp_lat) = nRings * nBearings
          /\ Len(interp_lon) = nRings * nBearings
  /\ (InMulti /\ pc = "multi_store") => Len(interp_vals) = nRings * nBearings
  /\ raised_at # 127 \/ Len(interp_lat) = Len(interp_lon)

\* C9: the values of the center at position i of center_lon and position j of
\* center_lat are stored at array_out[i, j, :], and no store falls outside the
\* array.
C9_StoredAtLoopPosition ==
  /\ error # "IndexError"
  /\ \A w \in writes : w.cell = w.center

\* C10: the single-center points are in ring-major, bearing-minor order, the
\* point of radius_steps[i] and degree_steps[j] (0-based) being at index
\* i * len(degree_steps) + j, shifted by one when the origin is in front, and
\* interp_vals[k] is the value interpolated at (interp_lon[k], interp_lat[k]).
C10_RingMajorOrder ==
  SinglePointsBuilt
    => LET off == IF radius_steps[1] = 0 THEN 0 ELSE 1
       IN /\ \A i \in 0..(nRings - 1), j \in 0..(nBearings - 1) :
               LET k == off + i * nBearings + j
               IN /\ interp_lat[k + 1] = DestLat(center_lat[1], center_lon[1],
                                                 radius_steps[i + 1], degree_steps[j + 1])
                  /\ interp_lon[k + 1] = DestLon(center_lat[1], center_lon[1],
                                                 radius_steps[i + 1], degree_steps[j + 1])
          /\ pc \in {"single_return", "done"}
               => /\ Len(interp_vals) = Len(interp_lon)
                  /\ \A k \in 1..Len(interp_vals) :
                       interp_vals[k] = InterpAt(interp_lon[k], interp_lat[k])

C10_Witness ==
  /\ InSingle
  /\ pc = "done"
  /\ radius_steps[1] > 0
  /\ nRings = 2
  /\ nBearings = 2
  /\ Len(interp_vals) = 5

====
